---- MODULE Spec2Model ----
(***************************************************************************)
(* Model of with-respect-to (WRT.py): a persistent tree of named 3D        *)
(* frames stored one sqlite file per world, queried and updated through    *)
(* the fluent chains                                                       *)
(*     db.In(w).Get(f).Wrt(r).Ei(e)                                        *)
(*     db.In(w).Set(f).Wrt(r).Ei(e).As(P)                                  *)
(* and read by Visualize(w) on a connection of its own.                    *)
(* Rotations are exact integer matrices (axis-aligned rotations), so the   *)
(* floating-point arithmetic of numpy is idealised as integer arithmetic.  *)
(***************************************************************************)
EXTENDS Integers, Sequences, FiniteSets, TLC

VARIABLES files, opened, chain, connects, seen

vars == <<files, opened, chain, connects, seen>>

(***************************************************************************)
(* Bounds of the model.                                                    *)
(***************************************************************************)
\* largest translation coordinate offered to Set(..).As(P)
MaxCoord == 1

\* largest number of sql.connect calls followed for one world
MaxConnects == 2

(***************************************************************************)
(* Linear algebra on 3-vectors and 3x3 matrices (numpy @, .T, SE3.R, .t).  *)
(***************************************************************************)
Dot(u, v) == u[1] * v[1] + u[2] * v[2] + u[3] * v[3]

Col(A, j) == <<A[1][j], A[2][j], A[3][j]>>

MatMul(A, B) == [i \in 1..3 |-> [j \in 1..3 |-> Dot(A[i], Col(B, j))]]

MatVec(A, v) == [i \in 1..3 |-> Dot(A[i], v)]

Transpose(A) == [i \in 1..3 |-> Col(A, i)]

VecAdd(u, v) == [i \in 1..3 |-> u[i] + v[i]]

VecNeg(u) == [i \in 1..3 |-> 0 - u[i]]

Det(A) ==
    A[1][1] * (A[2][2] * A[3][3] - A[2][3] * A[3][2])
  - A[1][2] * (A[2][1] * A[3][3] - A[2][3] * A[3][1])
  + A[1][3] * (A[2][1] * A[3][2] - A[2][2] * A[3][1])

Eye3 == <<<<1, 0, 0>>, <<0, 1, 0>>, <<0, 0, 1>>>>

Zero3 == <<0, 0, 0>>

\* SE3.Rx(90, "deg") and SE3.Rz(90, "deg")
Rx90 == <<<<1, 0, 0>>, <<0, 0, -1>>, <<0, 1, 0>>>>

Rz90 == <<<<0, -1, 0>>, <<1, 0, 0>>, <<0, 0, 1>>>>

\* a third of a turn about the diagonal (1,1,1): x to y to z to x
Turn3 == <<<<0, 0, 1>>, <<1, 0, 0>>, <<0, 1, 0>>>>

\* the half turn about the axis (1,-1,0): x to -y, y to -x, z to -z
Half == <<<<0, -1, 0>>, <<-1, 0, 0>>, <<0, 0, -1>>>>

(***************************************************************************)
(* SE3 values: a rotation R and a translation t.                           *)
(***************************************************************************)
SE3(R, t) == [R |-> R, t |-> t]

Identity == SE3(Eye3, Zero3)

\* SE3 @ SE3
Compose(X1, X2) == SE3(MatMul(X1.R, X2.R), VecAdd(MatVec(X1.R, X2.t), X1.t))

\* SE3.inv()
Inv(X) == SE3(Transpose(X.R), VecNeg(MatVec(Transpose(X.R), X.t)))

\* SE3(x, y, z): a pure translation
Trans(t) == SE3(Eye3, t)

\* the check SE3(ndarray) applies to a 4x4 matrix: orthonormal, determinant 1
IsRot(R) == MatMul(R, Transpose(R)) = Eye3 /\ Det(R) = 1

(***************************************************************************)
(* Identifiers.  A name is a string; Spelling gives its characters so that *)
(* the regular expression of __verifyInput can be evaluated on it.         *)
(***************************************************************************)
Spelling ==
    [n \in {"world", "test", "a", "b", "c", "d", "", "A", "a\n", "\na"} |->
        CASE n = "world" -> <<"w", "o", "r", "l", "d">>
          [] n = "test"  -> <<"t", "e", "s", "t">>
          [] n = "a"     -> <<"a">>
          [] n = "b"     -> <<"b">>
          [] n = "c"     -> <<"c">>
          [] n = "d"     -> <<"d">>
          [] n = ""      -> <<>>
          [] n = "A"     -> <<"A">>
          [] n = "a\n"   -> <<"a", "\n">>
          [] n = "\na"   -> <<"\n", "a">>]

\* the character class [0-9a-z\-]
ClassChars ==
    {"0", "1", "2", "3", "4", "5", "6", "7", "8", "9", "-",
     "a", "b", "c", "d", "e", "f", "g", "h", "i", "j", "k", "l", "m",
     "n", "o", "p", "q", "r", "s", "t", "u", "v", "w", "x", "y", "z"}

\* re.match("^[0-9a-z\-]+$", s): one or more class characters from the start,
\* then "$", which Python matches at the end of the string and also just
\* before a newline that ends the string
ReMatch(s) ==
    \E k \in 1..Len(s) :
        /\ \A i \in 1..k : s[i] \in ClassChars
        /\ \/ k = Len(s)
           \/ k = Len(s) - 1 /\ s[Len(s)] = "\n"

\* __verifyInput raises ValueError unless the name matches
verifyInput(name) == ReMatch(Spelling[name])

(***************************************************************************)
(* The frames table of one world: a function from the names that have a    *)
(* row to [parent, pose]; parent "NULL" is the SQL NULL of the root.       *)
(***************************************************************************)
NULL == "NULL"

Row(parent, pose) == [parent |-> parent, pose |-> pose]

\* INSERT INTO frames VALUES ('world', NULL, 1,0,0, 0,1,0, 0,0,1, 0,0,0)
WorldRow == Row(NULL, Identity)

SeededFrames == [n \in {"world"} |-> WorldRow]

NoFrames == [n \in {} |-> WorldRow]

\* a DELETE that takes the rows of the children with it
Delete_WithChildren(frames, name) ==
    [n \in {m \in DOMAIN frames : m # name /\ frames[m].parent # name} |-> frames[n]]

\* DELETE FROM frames WHERE name IS ?
Delete(frames, name) == [n \in DOMAIN frames \ {name} |-> frames[n]]

\* INSERT INTO frames VALUES (name, parent, R.., t..); name has no row
Insert(frames, name, row) ==
    [n \in DOMAIN frames \cup {name} |-> IF n = name THEN row ELSE frames[n]]

(***************************************************************************)
(* GetExpressedIn: the resolver.  Every __getParentFrame runs inside       *)
(* "with connection", which commits on a normal exit and rolls back when   *)
(* the lookup raises; lookups counts the lookups that returned.            *)
(***************************************************************************)
Resolved(pose, n) == [ok |-> TRUE, why |-> "ok", pose |-> pose, lookups |-> n]

Unresolved(why, n) == [ok |-> FALSE, why |-> why, pose |-> Identity, lookups |-> n]

\* the while loop of __poseWrtWorld; it has no cycle guard, and fuel (the
\* number of rows) is used up only by a chain that revisits a row
RECURSIVE Climb(_, _, _, _, _)
Climb(frames, parent, new_transfo, n, fuel) ==
    IF parent = NULL THEN Resolved(new_transfo, n)
    ELSE IF parent \notin DOMAIN frames THEN Unresolved("UnknownFrame", n)
    ELSE IF fuel = 0 THEN Unresolved("Diverges", n)
    ELSE Climb(frames, frames[parent].parent,
               Compose(frames[parent].pose, new_transfo), n + 1, fuel - 1)

\* __poseWrtWorld taking a name without a row for the root
poseWrtWorld_UnknownIsRoot(frames, frame_name) ==
    IF frame_name \notin DOMAIN frames THEN Resolved(Identity, 0)
    ELSE Climb(frames, frames[frame_name].parent, frames[frame_name].pose,
               1, Cardinality(DOMAIN frames))

poseWrtWorld(frames, frame_name) ==
    IF frame_name \notin DOMAIN frames THEN Unresolved("UnknownFrame", 0)
    ELSE Climb(frames, frames[frame_name].parent, frames[frame_name].pose,
               1, Cardinality(DOMAIN frames))

\* Ei with one of its steps changed: the reference translation not negated,
\* the expressed-in pose not inverted, or the translation not re-expressed
EiChanged(frames, frame_name, ref_frame_name, in_frame_name, negate, invert, reframe) ==
    LET F == poseWrtWorld(frames, frame_name)
        R == poseWrtWorld(frames, ref_frame_name)
        I == poseWrtWorld(frames, in_frame_name)
    IN  IF ~F.ok THEN F
        ELSE IF ~R.ok THEN Unresolved(R.why, F.lookups + R.lookups)
        ELSE IF ~I.ok THEN Unresolved(I.why, F.lookups + R.lookups + I.lookups)
        ELSE LET X_WF_W == F.pose
                 X_RW_W == Trans(IF negate THEN VecNeg(R.pose.t) ELSE R.pose.t)
                 X_IW_I == IF invert THEN Inv(I.pose) ELSE I.pose
                 X_RF_W == Compose(X_RW_W, X_WF_W)
             IN  Resolved(SE3(MatMul(X_IW_I.R, X_RF_W.R),
                              IF reframe THEN MatVec(X_IW_I.R, X_RF_W.t) ELSE X_RF_W.t),
                          F.lookups + R.lookups + I.lookups)

Ei_RefNotNegated(frames, frame_name, ref_frame_name, in_frame_name) ==
    EiChanged(frames, frame_name, ref_frame_name, in_frame_name, FALSE, TRUE, TRUE)

Ei_InNotInverted(frames, frame_name, ref_frame_name, in_frame_name) ==
    EiChanged(frames, frame_name, ref_frame_name, in_frame_name, TRUE, FALSE, TRUE)

Ei_TranslationKept(frames, frame_name, ref_frame_name, in_frame_name) ==
    EiChanged(frames, frame_name, ref_frame_name, in_frame_name, TRUE, TRUE, FALSE)

\* GetExpressedIn(con, frame_name, ref_frame_name).Ei(in_frame_name), after
\* the name check: the three chain walks in the order of the code
Ei(frames, frame_name, ref_frame_name, in_frame_name) ==
    LET F == poseWrtWorld(frames, frame_name)
        R == poseWrtWorld(frames, ref_frame_name)
        I == poseWrtWorld(frames, in_frame_name)
    IN  IF ~F.ok THEN F
        ELSE IF ~R.ok THEN Unresolved(R.why, F.lookups + R.lookups)
        ELSE IF ~I.ok THEN Unresolved(I.why, F.lookups + R.lookups + I.lookups)
        ELSE LET X_WF_W == F.pose
                 X_RW_W == Trans(VecNeg(R.pose.t))
                 X_IW_I == Inv(I.pose)
                 X_RF_W == Compose(X_RW_W, X_WF_W)
             IN  Resolved(SE3(MatMul(X_IW_I.R, X_RF_W.R), MatVec(X_IW_I.R, X_RF_W.t)),
                          F.lookups + R.lookups + I.lookups)

(***************************************************************************)
(* SetAs.As: the mutation.  P is the argument of As: a matrix of some      *)
(* shape with rotation part R and translation part t.                      *)
(***************************************************************************)
Matrix(shape, R, t) == [shape |-> shape, R |-> R, t |-> t]

AsResult(ok, err, frames) == [ok |-> ok, err |-> err, frames |-> frames]

\* the row As would insert if it stored the pose as given
NewRow_AsGiven(ref_frame_name, X_RI_R, transfo_matrix) ==
    Row(ref_frame_name, SE3(transfo_matrix.R, transfo_matrix.t))

\* the row As inserts: the pose re-expressed in the axes of the reference
NewRow(ref_frame_name, X_RI_R, transfo_matrix) ==
    Row(ref_frame_name,
        SE3(MatMul(X_RI_R.R, transfo_matrix.R), MatVec(X_RI_R.R, transfo_matrix.t)))

\* As without the test that the reference has a row
AsTransaction_RefUnchecked(frames, frame_name, ref_frame_name, in_frame_name, transfo_matrix) ==
    LET work == Delete(frames, frame_name)
        X_RI_R == Ei(work, in_frame_name, ref_frame_name, ref_frame_name)
        committed == IF X_RI_R.lookups > 0 THEN work ELSE frames
    IN  IF ~X_RI_R.ok
        THEN AsResult(FALSE, X_RI_R.why, committed)
        ELSE AsResult(TRUE, "ok",
                      Insert(work, frame_name,
                             NewRow(ref_frame_name, X_RI_R.pose, transfo_matrix)))

\* As resolving the reference and the expressed-in frame before the DELETE
AsTransaction_ResolveFirst(frames, frame_name, ref_frame_name, in_frame_name, transfo_matrix) ==
    IF ref_frame_name \notin DOMAIN frames
    THEN AsResult(FALSE, "UnknownFrame", frames)
    ELSE LET X_RI_R == Ei(frames, in_frame_name, ref_frame_name, ref_frame_name)
         IN  IF ~X_RI_R.ok
             THEN AsResult(FALSE, X_RI_R.why, frames)
             ELSE AsResult(TRUE, "ok",
                           Insert(Delete(frames, frame_name), frame_name,
                                  NewRow(ref_frame_name, X_RI_R.pose, transfo_matrix)))

\* As on a connection that commits every statement at once
AsTransaction_Autocommit(frames, frame_name, ref_frame_name, in_frame_name, transfo_matrix) ==
    IF ref_frame_name \notin DOMAIN frames
    THEN AsResult(FALSE, "UnknownFrame", frames)
    ELSE LET work == Delete(frames, frame_name)
             X_RI_R == Ei(work, in_frame_name, ref_frame_name, ref_frame_name)
         IN  IF ~X_RI_R.ok
             THEN AsResult(FALSE, X_RI_R.why, work)
             ELSE AsResult(TRUE, "ok",
                           Insert(work, frame_name,
                                  NewRow(ref_frame_name, X_RI_R.pose, transfo_matrix)))

\* the body of "with self.__sql_connection as con": the pending DELETE is
\* committed by the first __getParentFrame that returns, and rolled back
\* when the very first lookup raises
AsTransaction(frames, frame_name, ref_frame_name, in_frame_name, transfo_matrix) ==
    IF ref_frame_name \notin DOMAIN frames
    THEN AsResult(FALSE, "UnknownFrame", frames)
    ELSE LET work == Delete(frames, frame_name)
             X_RI_R == Ei(work, in_frame_name, ref_frame_name, ref_frame_name)
             committed == IF X_RI_R.lookups > 0 THEN work ELSE frames
         IN  IF ~X_RI_R.ok
             THEN AsResult(FALSE, X_RI_R.why, committed)
             ELSE AsResult(TRUE, "ok",
                           Insert(work, frame_name,
                                  NewRow(ref_frame_name, X_RI_R.pose, transfo_matrix)))

As(file, frame_name, ref_frame_name, in_frame_name, transfo_matrix) ==
    IF transfo_matrix.shape # <<4, 4>> \/ ~IsRot(transfo_matrix.R)
    THEN AsResult(FALSE, "InvalidPose", file.frames)
    ELSE IF ~file.table
    THEN AsResult(FALSE, "NoTable", file.frames)
    ELSE AsTransaction(file.frames, frame_name, ref_frame_name, in_frame_name,
                       transfo_matrix)

(***************************************************************************)
(* DbConnector: one sqlite file per world, and the connection opened last. *)
(***************************************************************************)
File(exists, table, frames) == [exists |-> exists, table |-> table, frames |-> frames]

NoFile == File(FALSE, FALSE, NoFrames)

InResult(ok, fs, name, connected) ==
    [ok |-> ok, files |-> fs, opened |-> name, connected |-> connected]

\* DbConnector.In(worldName)
In(fs, opened_world_name, worldName) ==
    IF opened_world_name # NULL /\ opened_world_name = worldName
    THEN InResult(TRUE, fs, opened_world_name, FALSE)
    ELSE IF ~verifyInput(worldName)
    THEN InResult(FALSE, fs, opened_world_name, FALSE)
    ELSE IF ~fs[worldName].exists
    THEN InResult(TRUE, [fs EXCEPT ![worldName] = File(TRUE, TRUE, SeededFrames)],
                  worldName, TRUE)
    ELSE InResult(TRUE, fs, worldName, TRUE)

(***************************************************************************)
(* The fluent chain.  chain is what the caller holds: the object the last  *)
(* method returned (its class and its fields), the pose a finished Get     *)
(* returned, or the method that raised and its error.  For a call of As,   *)
(* had records whether the frame had a row when As was called.             *)
(***************************************************************************)
NoMatrix == Matrix(<<0, 0>>, Eye3, Zero3)

Obj(cls, op, w, f, r, e, P, stage, err, result) ==
    [cls |-> cls, op |-> op, w |-> w, f |-> f, r |-> r, e |-> e, P |-> P,
     stage |-> stage, err |-> err, result |-> result, had |-> FALSE]

\* obj, of a call of As on a frame that had a row (or not) when it began
Had(obj, had) == [obj EXCEPT !.had = had]

\* an object of class cls built so far by a chain
Built(cls, op, w, f, r, e) ==
    Obj(cls, op, w, f, r, e, NoMatrix, "none", "ok", Identity)

\* the exception err raised by method stage
Raised(op, w, f, r, e, P, stage, err) ==
    Obj("Raised", op, w, f, r, e, P, stage, err, Identity)

\* the value the last method of a chain returned
Returned(op, w, f, r, e, P, result) ==
    Obj("Returned", op, w, f, r, e, P, "none", "ok", result)

NoChain == Built("None", "none", NULL, NULL, NULL, NULL)

\* the world names of the model; NameWorlds are those given to In by NameSpec
WorldNames == {"test", "a", "a\n", "A", ""}

NameWorlds == {"test", "a\n", "A", ""}

\* what Visualize last read on its own connection: the world, the names its
\* SELECT listed, whether it went through, and where the caller of As stood
View(w, names, ok, at) == [w |-> w, names |-> names, ok |-> ok, at |-> at]

NoView == View(NULL, {}, FALSE, "none")

Init ==
    /\ files = [w \in WorldNames |-> NoFile]
    /\ opened = NULL
    /\ chain = NoChain
    /\ connects = [w \in WorldNames |-> 0]
    /\ seen = <<NoView, NoView>>

\* db.In(w); the caller is not inside As
DbConnector_In(w) ==
    LET in == In(files, opened, w)
    IN  /\ chain.cls # "InAs"
        /\ in.connected => connects[w] < MaxConnects
        /\ files' = in.files
        /\ opened' = in.opened
        /\ connects' = IF in.connected THEN [connects EXCEPT ![w] = @ + 1]
                       ELSE connects
        /\ chain' = IF in.ok THEN Built("GetSet", "In", w, NULL, NULL, NULL)
                    ELSE Raised("In", w, NULL, NULL, NULL, NoMatrix, "In",
                                "InvalidName")
        /\ UNCHANGED seen

\* GetSet.Get(f)
GetSet_Get(f) ==
    /\ chain.cls = "GetSet"
    /\ chain' = Built("Getter", "Get", chain.w, f, NULL, NULL)
    /\ UNCHANGED <<files, opened, connects, seen>>

\* GetSet.Set without the test for "world"
GetSet_Set_Unguarded(f) ==
    /\ chain.cls = "GetSet"
    /\ chain' = Built("Setter", "Set", chain.w, f, NULL, NULL)
    /\ UNCHANGED <<files, opened, connects, seen>>

\* GetSet.Set(f)
GetSet_Set(f) ==
    /\ chain.cls = "GetSet"
    /\ chain' = IF f = "world"
                THEN Raised("Set", chain.w, f, NULL, NULL, NoMatrix, "Set",
                            "ImmutableRoot")
                ELSE Built("Setter", "Set", chain.w, f, NULL, NULL)
    /\ UNCHANGED <<files, opened, connects, seen>>

\* Getter.Wrt(r): builds a GetExpressedIn, whose constructor checks f and r
Getter_Wrt(r) ==
    /\ chain.cls = "Getter"
    /\ chain' = IF verifyInput(chain.f) /\ verifyInput(r)
                THEN Built("GetExpressedIn", "Get", chain.w, chain.f, r, NULL)
                ELSE Raised("Get", chain.w, chain.f, r, NULL, NoMatrix, "Wrt",
                            "InvalidName")
    /\ UNCHANGED <<files, opened, connects, seen>>

\* Setter.Wrt(r): builds a SetExpressedIn, whose constructor checks nothing
Setter_Wrt(r) ==
    /\ chain.cls = "Setter"
    /\ chain' = Built("SetExpressedIn", "Set", chain.w, chain.f, r, NULL)
    /\ UNCHANGED <<files, opened, connects, seen>>

\* GetExpressedIn.Ei(e): checks e, then resolves
GetExpressedIn_Ei(e) ==
    /\ chain.cls = "GetExpressedIn"
    /\ LET file == files[chain.w]
           X == Ei(file.frames, chain.f, chain.r, e)
           raise(err) == Raised("Get", chain.w, chain.f, chain.r, e, NoMatrix, "Ei",
                                err)
       IN  chain' = IF ~verifyInput(e) THEN raise("InvalidName")
                    ELSE IF ~file.table THEN raise("NoTable")
                    ELSE IF ~X.ok THEN raise(X.why)
                    ELSE Returned("Get", chain.w, chain.f, chain.r, e, NoMatrix,
                                  X.pose)
    /\ UNCHANGED <<files, opened, connects, seen>>

\* SetExpressedIn.Ei(e): builds a SetAs, whose constructor checks f, r and e
SetExpressedIn_Ei(e) ==
    /\ chain.cls = "SetExpressedIn"
    /\ chain' = IF verifyInput(chain.f) /\ verifyInput(chain.r) /\ verifyInput(e)
                THEN Built("SetAs", "Set", chain.w, chain.f, chain.r, e)
                ELSE Raised("Set", chain.w, chain.f, chain.r, e, NoMatrix, "Ei",
                            "InvalidName")
    /\ UNCHANGED <<files, opened, connects, seen>>

\* SetAs.As(P)
SetAs_As(P) ==
    /\ chain.cls = "SetAs"
    /\ LET file == files[chain.w]
           as == As(file, chain.f, chain.r, chain.e, P)
           had == chain.f \in DOMAIN file.frames
       IN  /\ files' = [files EXCEPT ![chain.w].frames = as.frames]
           /\ chain' = IF as.ok
                       THEN Had(Returned("Set", chain.w, chain.f, chain.r, chain.e, P,
                                         Identity), had)
                       ELSE Had(Raised("Set", chain.w, chain.f, chain.r, chain.e, P,
                                       "As", as.err), had)
    /\ UNCHANGED <<opened, connects, seen>>

(***************************************************************************)
(* SetAs.As step by step, as a user of a second connection sees it.  The   *)
(* caller's position inside As is an object of class "InAs" whose stage    *)
(* names the statement executed last.  files is the committed content of   *)
(* the files; a DELETE not yet committed is visible to the caller only.    *)
(***************************************************************************)
\* the caller inside As(P), after the statement named by stage
InAs(stage, P, had) ==
    Had(Obj("InAs", "Set", chain.w, chain.f, chain.r, chain.e, P, stage, "ok",
            Identity), had)

\* As raising err, and As returning
AsRaised(P, err, had) ==
    Had(Raised("Set", chain.w, chain.f, chain.r, chain.e, P, "As", err), had)

AsReturned(P, had) ==
    Had(Returned("Set", chain.w, chain.f, chain.r, chain.e, P, Identity), had)

\* As(P) up to the DELETE: the pose is checked, the reference is looked up
\* and the DELETE is executed inside the open transaction
SetAs_As_Delete(P) ==
    /\ chain.cls = "SetAs"
    /\ LET file == files[chain.w]
           had == chain.f \in DOMAIN file.frames
       IN  chain' = IF P.shape # <<4, 4>> \/ ~IsRot(P.R)
                    THEN AsRaised(P, "InvalidPose", had)
                    ELSE IF ~file.table THEN AsRaised(P, "NoTable", had)
                    ELSE IF chain.r \notin DOMAIN file.frames
                    THEN AsRaised(P, "UnknownFrame", had)
                    ELSE InAs("Delete", P, had)
    /\ UNCHANGED <<files, opened, connects, seen>>

\* the first lookup of the getter with its transaction left open: the
\* DELETE stays pending to the end of As
SetAs_As_Lookup_OneTransaction ==
    /\ chain.cls = "InAs" /\ chain.stage = "Delete"
    /\ LET work == Delete(files[chain.w].frames, chain.f)
       IN  chain' = IF chain.e \in DOMAIN work
                    THEN InAs("Lookup", chain.P, chain.had)
                    ELSE AsRaised(chain.P, "UnknownFrame", chain.had)
    /\ UNCHANGED <<files, opened, connects, seen>>

\* the first __getParentFrame of the getter, for the expressed-in frame: its
\* "with connection" commits the pending DELETE when the row is found, and
\* the exception it raises otherwise rolls the DELETE back
SetAs_As_Lookup ==
    /\ chain.cls = "InAs" /\ chain.stage = "Delete"
    /\ LET work == Delete(files[chain.w].frames, chain.f)
       IN  IF chain.e \in DOMAIN work
           THEN /\ files' = [files EXCEPT ![chain.w].frames = work]
                /\ chain' = InAs("Lookup", chain.P, chain.had)
           ELSE /\ files' = files
                /\ chain' = AsRaised(chain.P, "UnknownFrame", chain.had)
    /\ UNCHANGED <<opened, connects, seen>>

\* the rest of getter.Ei, then the INSERT and the commit that ends As
SetAs_As_Insert ==
    /\ chain.cls = "InAs" /\ chain.stage = "Lookup"
    /\ LET work == Delete(files[chain.w].frames, chain.f)
           X_RI_R == Ei(work, chain.e, chain.r, chain.r)
       IN  IF X_RI_R.ok
           THEN /\ files' = [files EXCEPT ![chain.w].frames =
                                 Insert(work, chain.f,
                                        NewRow(chain.r, X_RI_R.pose, chain.P))]
                /\ chain' = AsReturned(chain.P, chain.had)
           ELSE /\ files' = files
                /\ chain' = AsRaised(chain.P, X_RI_R.why, chain.had)
    /\ UNCHANGED <<opened, connects, seen>>

\* Visualize(w): a connection of its own (sql.connect makes an empty file
\* when there is none), SELECT name FROM frames on it, then for every name
\* listed a Get with respect to world through a new DbConnector
Visualize(w) ==
    LET file == IF files[w].exists THEN files[w] ELSE File(TRUE, FALSE, NoFrames)
        names == DOMAIN file.frames
        ok == /\ file.table
              /\ verifyInput(w)
              /\ \A fn \in names :
                    verifyInput(fn) /\ Ei(file.frames, fn, "world", "world").ok
        at == IF chain.cls = "InAs" THEN chain.stage ELSE "none"
    IN  /\ files' = [files EXCEPT ![w] = file]
        /\ seen' = <<seen[2], View(w, names, ok, at)>>
        /\ UNCHANGED <<opened, chain, connects>>

(***************************************************************************)
(* Spec: one world, frames a and b, poses with rotations that do not       *)
(* commute (a third of a turn about the diagonal, a half turn about an     *)
(* axis across it) and translations along the diagonal.                    *)
(***************************************************************************)
Worlds == {"test"}

Frames == {"world", "a", "b"}

Rotations == {Eye3, Turn3, Half}

Translations == {<<k, k, k>> : k \in 0..MaxCoord}

\* a reflection: orthonormal with determinant -1, so not a rotation
Mirror == <<<<1, 0, 0>>, <<0, 1, 0>>, <<0, 0, -1>>>>

GoodPoses == {Matrix(<<4, 4>>, R, t) : R \in Rotations, t \in Translations}

BadPoses == {Matrix(<<3, 3>>, Eye3, Zero3), Matrix(<<4, 4>>, Mirror, Zero3)}

Next ==
    \/ \E w \in Worlds : DbConnector_In(w)
    \/ \E f \in Frames : GetSet_Get(f)
    \/ \E f \in Frames : GetSet_Set(f)
    \/ \E r \in Frames : Getter_Wrt(r)
    \/ \E r \in Frames : Setter_Wrt(r)
    \/ \E e \in Frames : GetExpressedIn_Ei(e)
    \/ \E e \in Frames : SetExpressedIn_Ei(e)
    \/ \E P \in GoodPoses : SetAs_As(P)

Spec == Init /\ [][Next]_vars

(***************************************************************************)
(* ScenarioSpec: the fixture of test.py.  The four Set chains run in the   *)
(* order of the file (a, b, c, d), each with the reference, expressed-in   *)
(* frame and pose the file gives; Get chains are free.                     *)
(***************************************************************************)
ScenarioFrames == {"world", "a", "b", "c", "d"}

Script ==
    [f \in {"a", "b", "c", "d"} |->
        CASE f = "a" -> [r |-> "world", P |-> Matrix(<<4, 4>>, Eye3, <<1, 1, 1>>)]
          [] f = "b" -> [r |-> "a", P |-> Matrix(<<4, 4>>, Rx90, Zero3)]
          [] f = "c" -> [r |-> "b", P |-> Matrix(<<4, 4>>, Eye3, <<1, 0, 0>>)]
          [] f = "d" -> [r |-> "b", P |-> Matrix(<<4, 4>>, Rz90, <<1, 1, 0>>)]]

ScriptOrder == <<"a", "b", "c", "d">>

\* f is the frame of the next Set line of the file: the lines before it have
\* run, and its own has not
ScriptTurn(f) ==
    /\ files["test"].exists
    /\ \E k \in 1..Len(ScriptOrder) :
          /\ ScriptOrder[k] = f
          /\ \A j \in 1..Len(ScriptOrder) :
                ScriptOrder[j] \in DOMAIN files["test"].frames <=> j < k

ScenarioNext ==
    \/ DbConnector_In("test")
    \/ \E f \in ScenarioFrames : GetSet_Get(f)
    \/ \E r \in ScenarioFrames : Getter_Wrt(r)
    \/ \E e \in ScenarioFrames : GetExpressedIn_Ei(e)
    \/ \E f \in DOMAIN Script : ScriptTurn(f) /\ GetSet_Set(f)
    \/ chain.f \in DOMAIN Script /\ Setter_Wrt(Script[chain.f].r)
    \/ chain.f \in DOMAIN Script /\ SetExpressedIn_Ei(Script[chain.f].r)
    \/ chain.f \in DOMAIN Script /\ SetAs_As(Script[chain.f].P)

ScenarioSpec == Init /\ [][ScenarioNext]_vars

(***************************************************************************)
(* NameSpec: the chains with names of every kind (well formed, empty, with *)
(* an upper-case letter, with a newline at the end or at the start), on    *)
(* the identity pose and on matrices that are no poses.                    *)
(***************************************************************************)
NameFrames == {"world", "a", "", "A", "a\n", "\na"}

NamePoses == {Matrix(<<4, 4>>, Eye3, Zero3)} \cup BadPoses

NameNext ==
    \/ \E w \in NameWorlds : DbConnector_In(w)
    \/ \E f \in NameFrames : GetSet_Get(f)
    \/ \E f \in NameFrames : GetSet_Set(f)
    \/ \E r \in NameFrames : Getter_Wrt(r)
    \/ \E r \in NameFrames : Setter_Wrt(r)
    \/ \E e \in NameFrames : GetExpressedIn_Ei(e)
    \/ \E e \in NameFrames : SetExpressedIn_Ei(e)
    \/ \E P \in NamePoses : SetAs_As(P)

NameSpec == Init /\ [][NameNext]_vars

(***************************************************************************)
(* WorldSpec: two worlds, opened through In in any order and any number of *)
(* times and read by Visualize, with a Get chain and a Set chain on each.  *)
(***************************************************************************)
TwoWorlds == {"test", "a"}

WorldFrames == {"world", "a"}

WorldPoses == {Matrix(<<4, 4>>, Turn3, <<1, 1, 1>>)}

WorldNext ==
    \/ \E w \in TwoWorlds : DbConnector_In(w)
    \/ \E w \in TwoWorlds : Visualize(w)
    \/ \E f \in WorldFrames : GetSet_Get(f)
    \/ Getter_Wrt("world")
    \/ GetExpressedIn_Ei("world")
    \/ GetSet_Set("a")
    \/ Setter_Wrt("world")
    \/ SetExpressedIn_Ei("world")
    \/ \E P \in WorldPoses : SetAs_As(P)

WorldSpec == Init /\ [][WorldNext]_vars

(***************************************************************************)
(* PoseSpec: the Set chain on one world with a pose and with matrices that *)
(* are no poses (wrong shape, a reflection).                               *)
(***************************************************************************)
PosePoses == {Matrix(<<4, 4>>, Turn3, <<1, 1, 1>>)} \cup BadPoses

PoseNext ==
    \/ \E w \in Worlds : DbConnector_In(w)
    \/ \E f \in Frames : GetSet_Set(f)
    \/ \E r \in Frames : Setter_Wrt(r)
    \/ \E e \in Frames : SetExpressedIn_Ei(e)
    \/ \E P \in PosePoses : SetAs_As(P)

PoseSpec == Init /\ [][PoseNext]_vars

(***************************************************************************)
(* ConcurrentSpec: one caller running Set chains whose As goes statement   *)
(* by statement, and Visualize reading the same world on its connection    *)
(* between any two of them.                                                *)
(***************************************************************************)
ConcurrentPoses == {Matrix(<<4, 4>>, Eye3, <<1, 1, 1>>), Matrix(<<3, 3>>, Eye3, Zero3)}

ConcurrentNext ==
    \/ \E w \in Worlds : DbConnector_In(w)
    \/ \E f \in WorldFrames : GetSet_Set(f)
    \/ \E r \in WorldFrames : Setter_Wrt(r)
    \/ \E e \in WorldFrames : SetExpressedIn_Ei(e)
    \/ \E P \in ConcurrentPoses : SetAs_As_Delete(P)
    \/ SetAs_As_Lookup
    \/ SetAs_As_Insert
    \/ \E w \in Worlds : Visualize(w)

ConcurrentSpec == Init /\ [][ConcurrentNext]_vars

(***************************************************************************)
(* Properties.                                                             *)
(***************************************************************************)
\* the frames table of world w
FramesOf(w) == files[w].frames

\* the last step was SetAs.As: it returned or raised
AsStep ==
    /\ chain.cls = "SetAs"
    /\ chain'.op = "Set"
    /\ chain'.cls \in {"Returned", "Raised"}

\* the frames reached from S by following parent at most k times
RECURSIVE Up(_, _, _)
Up(frames, S, k) ==
    IF k = 0 THEN S
    ELSE Up(frames, S \cup {frames[m].parent : m \in S \cap DOMAIN frames}, k - 1)

\* the names on the parent chain of n, n excluded
Ancestors(frames, n) ==
    IF n \in DOMAIN frames
    THEN Up(frames, {frames[n].parent}, Cardinality(DOMAIN frames))
    ELSE {}

Acyclic(frames) == \A n \in DOMAIN frames : n \notin Ancestors(frames, n)

\* the walk of __poseWrtWorld ends (with a pose or an error) from every row
WalkEnds(frames) == \A n \in DOMAIN frames : poseWrtWorld(frames, n).why # "Diverges"

\* the parent chain of n reaches world: every name on it has a row
ReachesWorld(frames, n) ==
    /\ n \in DOMAIN frames
    /\ n = "world" \/ "world" \in Ancestors(frames, n)
    /\ Ancestors(frames, n) \ {NULL} \subseteq DOMAIN frames

\* C1: in every reachable state every created world has exactly one frame
\* with a null parent, named "world", whose row is the seed row (identity
\* rotation, zero translation): the row is never deleted or replaced.
C1_WorldRoot ==
    \A w \in WorldNames :
        files[w].exists =>
            /\ "world" \in DOMAIN FramesOf(w)
            /\ FramesOf(w)["world"] = Row(NULL, SE3(Eye3, Zero3))
            /\ \A n \in DOMAIN FramesOf(w) : FramesOf(w)[n].parent = NULL => n = "world"

\* C1 witness: Set chains have succeeded and failed on a world that still has
\* its root: both a and b have rows, and the last As raised
C1_Witness ==
    /\ chain.cls = "Raised" /\ chain.stage = "As"
    /\ {"world", "a", "b"} \subseteq DOMAIN FramesOf("test")

\* C2: Set("world") raises in Set itself, so that no Wrt, Ei or As follows,
\* and the files are left as they were.
C2_SetWorldRaises ==
    [][(chain.cls = "GetSet" /\ chain'.op = "Set" /\ chain'.f = "world")
         => /\ chain'.cls = "Raised"
            /\ chain'.stage = "Set"
            /\ chain'.err = "ImmutableRoot"
            /\ files' = files]_vars

\* C2 witness: Set("world") was called on a world that holds other frames
C2_Witness ==
    /\ chain.op = "Set" /\ chain.f = "world" /\ chain.cls = "Raised"
    /\ "a" \in DOMAIN FramesOf(chain.w)

\* the pose of frame n of world w with respect to world, expressed in world
X_W(w, n) == poseWrtWorld(FramesOf(w), n).pose

\* the last call was a Get chain that reached the resolver with f, r, e
GetEnded(f, r, e) ==
    /\ chain.op = "Get"
    /\ chain.cls = "Returned" \/ (chain.cls = "Raised" /\ chain.err # "InvalidName")
    /\ chain.f = f /\ chain.r = r /\ chain.e = e

\* C3: right after Set(f).Wrt(r).Ei(e).As(P) has succeeded,
\* Get(f).Wrt(r).Ei(e) returns exactly P.
C3_RoundTrip ==
    (chain.cls = "Returned" /\ chain.op = "Set") =>
        LET X == Ei(FramesOf(chain.w), chain.f, chain.r, chain.e)
        IN  X.ok /\ X.pose = SE3(chain.P.R, chain.P.t)

\* C3 witness: a Set succeeded with e different from r, r rotated and
\* translated relative to world, and a pose that rotates and translates, so
\* that the stored row differs from the pose given
C3_Witness ==
    /\ chain.cls = "Returned" /\ chain.op = "Set"
    /\ chain.e # chain.r
    /\ X_W(chain.w, chain.r).R # Eye3
    /\ X_W(chain.w, chain.r).t # Zero3
    /\ chain.P.R # Eye3 /\ chain.P.t # Zero3
    /\ FramesOf(chain.w)[chain.f].pose.R # chain.P.R
    /\ FramesOf(chain.w)[chain.f].pose.t # chain.P.t

\* C4: Get(f).Wrt(f).Ei(f) returns the identity for every frame f whose
\* parent chain reaches world.
C4_SelfIsIdentity ==
    \A f \in DOMAIN Spelling :
        (GetEnded(f, f, f) /\ ReachesWorld(FramesOf(chain.w), f)) =>
            chain.cls = "Returned" /\ chain.result = SE3(Eye3, Zero3)

\* C4 witness: Get(b).Wrt(b).Ei(b) returned for b two rows below world, with
\* a stored rotation and a world pose that is rotated and translated
C4_Witness ==
    /\ GetEnded("b", "b", "b") /\ chain.cls = "Returned"
    /\ FramesOf(chain.w)["b"].parent = "a"
    /\ FramesOf(chain.w)["b"].pose.R # Eye3
    /\ FramesOf(chain.w)["a"].pose.R # Eye3
    /\ X_W(chain.w, "b").t # Zero3

\* C5: when Get(f).Wrt(m).Ei(m) returns X, composing m's pose with respect
\* to world with X gives f's pose with respect to world, which is what
\* Get(f).Wrt(world).Ei(world) returns; X is inverse(X_world_m) @ X_world_f.
C5_ThroughIntermediate ==
    (chain.op = "Get" /\ chain.cls = "Returned" /\ chain.r = chain.e) =>
        LET m == chain.r
            direct == Ei(FramesOf(chain.w), chain.f, "world", "world")
        IN  /\ direct.ok
            /\ Compose(X_W(chain.w, m), chain.result) = direct.pose
            /\ direct.pose = X_W(chain.w, chain.f)
            /\ chain.result = Compose(Inv(X_W(chain.w, m)), X_W(chain.w, chain.f))

\* C5 witness: Get(b).Wrt(a).Ei(a) returned, a being the parent of b and
\* rotated and translated relative to world, b translated relative to a
C5_Witness ==
    /\ chain.op = "Get" /\ chain.cls = "Returned"
    /\ chain.f = "b" /\ chain.r = "a" /\ chain.e = "a"
    /\ FramesOf(chain.w)["b"].parent = "a"
    /\ X_W(chain.w, "a").R # Eye3 /\ X_W(chain.w, "a").t # Zero3
    /\ FramesOf(chain.w)["b"].pose.t # Zero3
    /\ FramesOf(chain.w)["b"].pose.R # Eye3

\* the six Get chains the claim lists, with the poses it gives
ScenarioCases ==
    {[f |-> "a", r |-> "b", e |-> "b",
      X |-> SE3(<<<<1, 0, 0>>, <<0, 0, 1>>, <<0, -1, 0>>>>, <<0, 0, 0>>)],
     [f |-> "a", r |-> "b", e |-> "a",
      X |-> SE3(<<<<1, 0, 0>>, <<0, 1, 0>>, <<0, 0, 1>>>>, <<0, 0, 0>>)],
     [f |-> "c", r |-> "world", e |-> "world",
      X |-> SE3(<<<<1, 0, 0>>, <<0, 0, -1>>, <<0, 1, 0>>>>, <<2, 1, 1>>)],
     [f |-> "c", r |-> "world", e |-> "a",
      X |-> SE3(<<<<1, 0, 0>>, <<0, 0, -1>>, <<0, 1, 0>>>>, <<2, 1, 1>>)],
     [f |-> "c", r |-> "world", e |-> "c",
      X |-> SE3(<<<<1, 0, 0>>, <<0, 1, 0>>, <<0, 0, 1>>>>, <<2, 1, -1>>)],
     [f |-> "d", r |-> "a", e |-> "a",
      X |-> SE3(<<<<0, -1, 0>>, <<0, 0, -1>>, <<1, 0, 0>>>>, <<1, 0, 1>>)]}

\* the four Set lines of the fixture have run
ScenarioSet == files["test"].exists /\ DOMAIN FramesOf("test") = ScenarioFrames

\* C6: after the four Set chains of the fixture, each of the six Get chains
\* returns the pose listed for it.
C6_Scenario ==
    ScenarioSet =>
        \A c \in ScenarioCases :
            GetEnded(c.f, c.r, c.e) => chain.cls = "Returned" /\ chain.result = c.X

\* C6 witness: the fixture is set up and Get(d).Wrt(a).Ei(a) has returned
C6_Witness ==
    ScenarioSet /\ GetEnded("d", "a", "a") /\ chain.cls = "Returned"

\* a name the naming rule forbids: empty, or with a character outside the
\* class [0-9a-z-] at some position
BadName(n) ==
    \/ Len(Spelling[n]) = 0
    \/ \E i \in 1..Len(Spelling[n]) : Spelling[n][i] \notin ClassChars

\* the names the chain in hand was given
NamesGiven == {chain.f, chain.r, chain.e} \ {NULL}

\* C7: a chain given a forbidden name fails with an error before the store
\* is read or written: a forbidden world name makes In raise and creates no
\* file; a chain holding a forbidden frame, reference or expressed-in name
\* is either still before its name check or has raised on the name, and no
\* row ever carries a forbidden name.
C7_BadNamesRejected ==
    /\ (chain.w # NULL /\ BadName(chain.w)) =>
          chain.cls = "Raised" /\ chain.stage = "In" /\ chain.err = "InvalidName"
    /\ (\E n \in NamesGiven : BadName(n)) =>
          \/ chain.cls \in {"Getter", "Setter", "SetExpressedIn"}
          \/ chain.cls = "Raised" /\ chain.err = "InvalidName"
    /\ \A w \in WorldNames :
          /\ BadName(w) => ~files[w].exists
          /\ \A n \in DOMAIN FramesOf(w) : ~BadName(n)

\* C8: As with a reference that has no row raises and leaves the files as
\* they were: the row of f, if any, is kept and nothing is inserted.
C8_UnknownReference ==
    [][(AsStep /\ chain.r \notin DOMAIN FramesOf(chain.w))
         => chain'.cls = "Raised" /\ files' = files]_vars

\* C8 witness: As raised for a reference without a row while f has a row
C8_Witness ==
    /\ chain.op = "Set" /\ chain.cls = "Raised" /\ chain.stage = "As"
    /\ chain.err = "UnknownFrame"
    /\ chain.r \notin DOMAIN FramesOf(chain.w)
    /\ chain.f \in DOMAIN FramesOf(chain.w)

\* C9: every step that changes a frames table (empty at first) leaves its
\* parent relation acyclic and the walk of the resolver terminating from
\* every frame, and As with a reference that is f or a descendant of f
\* raises and inserts no row.
C9_Acyclic ==
    [][/\ \A w \in WorldNames :
             files'[w] # files[w] =>
                Acyclic(files'[w].frames) /\ WalkEnds(files'[w].frames)
       /\ (AsStep /\ (chain.r = chain.f
                       \/ chain.f \in Ancestors(FramesOf(chain.w), chain.r)))
            => /\ chain'.cls = "Raised"
               /\ \A n \in DOMAIN files'[chain.w].frames :
                     /\ n \in DOMAIN FramesOf(chain.w)
                     /\ files'[chain.w].frames[n] = FramesOf(chain.w)[n]]_vars

\* C9 witness: As raised for a reference that is a child of f
C9_Witness ==
    /\ chain.op = "Set" /\ chain.cls = "Raised" /\ chain.stage = "As"
    /\ chain.r \in DOMAIN FramesOf(chain.w)
    /\ FramesOf(chain.w)[chain.r].parent = chain.f

\* C10: in every reachable state the frames of a world form one tree rooted
\* at world: the parent of every other frame has a row, and every parent
\* chain reaches world.
C10_SingleTree ==
    \A w \in WorldNames :
        files[w].exists =>
            \A n \in DOMAIN FramesOf(w) \ {"world"} :
                /\ FramesOf(w)[n].parent \in DOMAIN FramesOf(w)
                /\ ReachesWorld(FramesOf(w), n)

\* C11: whenever In(w) has returned (the caller holds the GetSet it gave),
\* the file of w has the frames table and the table has exactly one root
\* row, the seed row ('world', NULL, identity, zero), whether the file was
\* absent, present without the table, or seeded before the call.
C11_SeededOnce ==
    chain.cls = "GetSet" =>
        /\ files[chain.w].exists
        /\ files[chain.w].table
        /\ "world" \in DOMAIN FramesOf(chain.w)
        /\ FramesOf(chain.w)["world"] = Row(NULL, Identity)
        /\ {n \in DOMAIN FramesOf(chain.w) : FramesOf(chain.w)[n].parent = NULL}
              = {"world"}

\* C12: In opens at most one connection for each world name, whatever the
\* order of the calls.
C12_OneConnectionPerWorld ==
    \A w \in WorldNames : connects[w] <= 1

\* As was called with a reference that has a row, on a frame that has a
\* row, and raised
AsFailedOnRow ==
    /\ AsStep /\ chain'.cls = "Raised"
    /\ chain.f \in DOMAIN FramesOf(chain.w)
    /\ chain.r \in DOMAIN FramesOf(chain.w)

\* C13 as stated: when As, called on a frame f that has a row with a
\* reference that has a row, fails (in the validation of the pose or in the
\* reframing lookup), the row of f is absent afterwards.
C13_RowGoneAfterFailure ==
    [][AsFailedOnRow => chain.f \notin DOMAIN files'[chain.w].frames]_vars

\* C13 amended: such a failed As has deleted the row of f, and nothing
\* else, exactly when the pose is valid and the expressed-in frame has a row
\* other than that of f (a lookup of the reframing returned before the one
\* that failed); when the pose fails validation, or the expressed-in frame
\* is f or has no row, the row of f is kept and the store is unchanged.
C13_RowGoneOrKept ==
    [][AsFailedOnRow =>
         IF /\ chain'.P.shape = <<4, 4>> /\ IsRot(chain'.P.R)
            /\ chain.e \in DOMAIN FramesOf(chain.w) \ {chain.f}
         THEN /\ chain.f \notin DOMAIN files'[chain.w].frames
              /\ files' = [files EXCEPT ![chain.w].frames =
                               [n \in DOMAIN @ \ {chain.f} |-> @[n]]]
         ELSE files' = files]_vars

\* C13 witness: As raised on a frame that had a row, with a reference and an
\* expressed-in frame that have rows, and the row of the frame is gone
C13_Witness ==
    /\ chain.cls = "Raised" /\ chain.stage = "As" /\ chain.had
    /\ chain.err = "UnknownFrame"
    /\ chain.f \notin DOMAIN FramesOf(chain.w)
    /\ chain.r \in DOMAIN FramesOf(chain.w)
    /\ chain.e \in DOMAIN FramesOf(chain.w)

\* C14: an As that raises, for whatever cause, leaves the files as they were
\* before the call.
C14_FailedAsKeepsStore ==
    [][(AsStep /\ chain'.cls = "Raised") => files' = files]_vars

\* C15: an As that returns changes only the row of f: afterwards f has a
\* row whose parent is r, whatever its parent was, the rows of all other
\* names (the children of f among them) are the rows they were, no other
\* name has gained or lost a row, and the other files are untouched.
C15_OnlyRowOfF ==
    [][(AsStep /\ chain'.cls = "Returned") =>
         LET old == FramesOf(chain.w)
             new == files'[chain.w].frames
         IN  /\ chain.f \in DOMAIN new
             /\ new[chain.f].parent = chain.r
             /\ DOMAIN new = DOMAIN old \cup {chain.f}
             /\ \A n \in DOMAIN old \ {chain.f} : new[n] = old[n]
             /\ \A w \in WorldNames \ {chain.w} : files'[w] = files[w]
             /\ files'[chain.w].exists = files[chain.w].exists
             /\ files'[chain.w].table = files[chain.w].table]_vars

\* C15 witness: As returned for a frame that had a row and has a child, and
\* the child's row is still there
C15_Witness ==
    /\ chain.cls = "Returned" /\ chain.op = "Set" /\ chain.had
    /\ FramesOf(chain.w)[chain.f].parent = chain.r
    /\ \E n \in DOMAIN FramesOf(chain.w) :
          /\ FramesOf(chain.w)[n].parent = chain.f
          /\ FramesOf(chain.w)[n].pose # Identity

\* C16: Get(f).Wrt(r).Ei(e) raises exactly when the parent chain of f, of r
\* or of e holds a name without a row (the name itself or an ancestor), and
\* returns a pose otherwise; in both cases the files are left as they were.
C16_GetFailsIffChainBroken ==
    [][(chain.cls = "GetExpressedIn" /\ chain'.cls \in {"Returned", "Raised"}) =>
         /\ chain'.cls = "Raised" <=>
               \E n \in {chain.f, chain.r, chain'.e} :
                   ~ReachesWorld(FramesOf(chain.w), n)
         /\ files' = files]_vars

\* C16 witness: a Get raised although f, r and e all have rows: the name
\* without a row is an ancestor
C16_Witness ==
    /\ chain.op = "Get" /\ chain.cls = "Raised" /\ chain.err = "UnknownFrame"
    /\ {chain.f, chain.r, chain.e} \subseteq DOMAIN FramesOf(chain.w)

\* C17: every name is checked by the method it is given to: a chain object
\* holds only names that passed the check, and a chain that raised on a
\* name raised in the method that was given the first name that fails it.
C17_ValidatedAtItsStage ==
    /\ chain.cls \in {"Getter", "Setter"} => verifyInput(chain.f)
    /\ chain.cls \in {"GetExpressedIn", "SetExpressedIn"} =>
          verifyInput(chain.f) /\ verifyInput(chain.r)
    /\ chain.cls = "SetAs" =>
          verifyInput(chain.f) /\ verifyInput(chain.r) /\ verifyInput(chain.e)
    /\ (chain.cls = "Raised" /\ chain.err = "InvalidName" /\ chain.op \in {"Get", "Set"}) =>
          IF ~verifyInput(chain.f) THEN chain.stage \in {"Get", "Set"}
          ELSE IF ~verifyInput(chain.r) THEN chain.stage = "Wrt"
          ELSE chain.stage = "Ei"

\* the caller is inside As, between the first lookup of the reframing and
\* the INSERT
BetweenDeleteAndInsert == chain.cls = "InAs" /\ chain.stage = "Lookup"

\* C18: while a Set replacing the row of f is between its first reframing
\* lookup and its INSERT, the committed store has no row for f, and a
\* Visualize that reads the world then, on its own connection, is given no
\* row for f: a reader can see f absent although f had a row before the
\* Set and has one after it.
C18_TransientAbsence ==
    [][BetweenDeleteAndInsert =>
         /\ chain.f \notin DOMAIN FramesOf(chain.w)
         /\ (seen' # seen /\ seen'[2].w = chain.w) =>
               /\ seen'[2].at = "Lookup"
               /\ chain.f \notin seen'[2].names]_vars

\* C18 witness: a Set on a frame that had a row has returned and the frame
\* has a row; Visualize read the world twice meanwhile, after the DELETE
\* (the row still listed) and after the first lookup (the row not listed)
C18_Witness ==
    /\ chain.cls = "Returned" /\ chain.op = "Set" /\ chain.had
    /\ chain.f \in DOMAIN FramesOf(chain.w)
    /\ seen[1].w = chain.w /\ seen[1].at = "Delete" /\ chain.f \in seen[1].names
    /\ seen[2].w = chain.w /\ seen[2].at = "Lookup" /\ chain.f \notin seen[2].names
    /\ "world" \in seen[2].names

====
